---- MODULE Spec2Model ----
(***************************************************************************)
(* The 'www' application of app-www/app-www.js: a Koa middleware chain.    *)
(*                                                                         *)
(*   serve -> logAccess -> handlebars -> handleErrors -> cleanPost ->      *)
(*   flash -> lusca -> ctxAddDomain -> routes -> notFound                  *)
(*                                                                         *)
(* One request is followed through the chain.  pc is the middleware the    *)
(* request's control is in; an exception thrown below handleErrors unwinds *)
(* through the frames that have no handler (cleanPost, flash, lusca,       *)
(* ctxAddDomain, routes) and arrives in the catch block of handleErrors.   *)
(*                                                                         *)
(* The collaborators that are not in this file are modelled by their       *)
(* contract: koa-static answers a request whose path is a file under       *)
(* 'public' and does not call next; flash, lusca and the routes either     *)
(* pass or throw an Error; ctx.render, ctx.app.emit and Log.access return  *)
(* normally.  Thrown values are Error objects with an optional status.     *)
(***************************************************************************)
EXTENDS Integers, Sequences, FiniteSets, TLC

VARIABLES
    env,          \* app.env, fixed at startup
    pc,           \* the middleware the request is in ("idle": no request)
    fileOnDisk,   \* the request's path is a file under 'public'
    parsed,       \* ctx.request.body as the body parser left it
    ctx,          \* the Koa context of the request
    exc,          \* <<e>> while exception e is in flight, else <<>>
    e,            \* <<e>> once handleErrors has caught e, else <<>>
    now,          \* the wall clock Date.now() reads
    t1,           \* logAccess: const t1
    clockWentBack,\* the wall clock was set back since t1 was read
    ran,          \* the middleware entered for this request
    thrown,       \* number of exceptions raised below handleErrors
    catches,      \* number of times the catch block was entered
    renders,      \* the calls of ctx.render, in order
    emits,        \* the calls of ctx.app.emit('error', ...), in order
    accesses      \* the calls of Log.access, in order

vars == <<env, pc, fileOnDisk, parsed, ctx, exc, e, now, t1, clockWentBack,
          ran, thrown, catches, renders, emits, accesses>>

----------------------------------------------------------------------------
(* Bounds *)

MaxStrLen == 2      \* longest form field value
MaxHostLen == 5     \* longest host header
MaxTime == 2        \* largest clock reading

----------------------------------------------------------------------------
(* Strings are sequences of characters. *)

StringsOver(chars, n) == UNION { [1..k -> chars] : k \in 0..n }

Space == " "
FieldChars == {Space, "x"}
FieldStrings == StringsOver(FieldChars, MaxStrLen)

HostChars == {"w", ".", "a"}
Hosts == StringsOver(HostChars, MaxHostLen)

\* String.prototype.trim: whitespace removed from both ends
RECURSIVE TrimLeft(_)
TrimLeft(s) == IF s # <<>> /\ Head(s) = Space THEN TrimLeft(Tail(s)) ELSE s

RECURSIVE TrimRight(_)
TrimRight(s) ==
    IF s # <<>> /\ s[Len(s)] = Space THEN TrimRight(SubSeq(s, 1, Len(s) - 1)) ELSE s

trim(s) == TrimRight(TrimLeft(s))

----------------------------------------------------------------------------
(* JavaScript values of a request body: <<typeof-like tag, payload>>. *)

Undefined == <<"undefined", <<>>>>
Null == <<"null", <<>>>>
Num == <<"number", <<>>>>
File == <<"file", <<>>>>
Str(s) == <<"string", s>>
Obj(m) == <<"object", m>>

\* the partial maps from keys to vals
Maps(keys, vals) == UNION { [K -> vals] : K \in SUBSET keys }

\* a form field as a body parser leaves it: a string, or something else
Leaves == { Str(s) : s \in FieldStrings } \cup {Num}

\* an urlencoded or json form: a flat mapping, whatever its keys are called
FlatKeys == {"a", "fields", "files"}
FlatBodies == { Obj(m) : m \in Maps(FlatKeys, Leaves) }

\* a multipart form as koa-body leaves it: { fields: {...}, files: {...} }
FieldKeys == {"a", "b"}
FileKeys == {"f"}
FileEntries == {File, Str(<<Space>>)}
MultipartBodies ==
    { Obj([fields |-> Obj(fm), files |-> Obj(fl)]) :
        fm \in Maps(FieldKeys, Leaves), fl \in Maps(FileKeys, FileEntries) }

Bodies == {Undefined} \cup FlatBodies \cup MultipartBodies

\* lines 74-77: one iteration of the loop, on a property of an object
cleanField(v) ==
    IF v[1] = "string"
    THEN LET t == trim(v[2]) IN IF t = <<>> THEN Null ELSE Str(t)
    ELSE v

\* line 71
multipart(body) == "fields" \in DOMAIN body[2] /\ "files" \in DOMAIN body[2]

\* line 72: the value the loop runs over
cleanTarget(body) == IF multipart(body) THEN body[2]["fields"] ELSE body

\* lines 73-78: for (const key in target).  An object has its properties
\* cleaned.  A string has its indices as keys and its characters as values:
\* the first assignment to one throws a TypeError under 'use strict'.  A
\* number has no keys.
loopThrows(target) == target[1] = "string" /\ target[2] # <<>>

loopResult(target) ==
    IF target[1] = "object"
    THEN Obj([k \in DOMAIN target[2] |-> cleanField(target[2][k])])
    ELSE target

\* lines 69-79: ctx.request.body after the if statement, and whether it threw
cleanBody(body) ==
    IF body[1] = "undefined" THEN body
    ELSE IF loopThrows(cleanTarget(body)) THEN body
    ELSE IF multipart(body)
         THEN Obj([body[2] EXCEPT !["fields"] = loopResult(body[2]["fields"])])
         ELSE loopResult(body)

cleanThrows(body) == body[1] # "undefined" /\ loopThrows(cleanTarget(body))

----------------------------------------------------------------------------
(* String.prototype.replace with a string pattern: the first occurrence.   *)

Www == <<"w", "w", "w", ".">>

occursAt(s, pat, i) == i + Len(pat) - 1 <= Len(s) /\ SubSeq(s, i, i + Len(pat) - 1) = pat

replace(s, pat, by) ==
    IF \E i \in 1..Len(s) : occursAt(s, pat, i)
    THEN LET i == CHOOSE j \in 1..Len(s) :
                    occursAt(s, pat, j) /\ \A k \in 1..(j - 1) : ~occursAt(s, pat, k)
         IN SubSeq(s, 1, i - 1) \o by \o SubSeq(s, i + Len(pat), Len(s))
    ELSE s

\* line 102
domainOf(host) == replace(host, Www, <<>>)

----------------------------------------------------------------------------
(* Errors: an Error object has a message and may have a status. *)

Statuses == {0, 403, 404, 500}
Messages == {"Not Found", "Boom"}
Errors == [message : Messages] \cup [status : Statuses, message : Messages]

\* ctx.throw(404): an http error with the status' standard message
NotFoundError == [status |-> 404, message |-> "Not Found"]

\* the TypeError of an assignment to a character of a string
TypeError == [message |-> "Cannot assign to read only property"]

\* statusOf with every status but 404 normalised to 500
statusOf_normalised(err) ==
    IF "status" \in DOMAIN err /\ err.status = 404 THEN 404 ELSE 500

\* line 49: e.status || 500
statusOf(err) ==
    IF "status" \in DOMAIN err /\ err.status # 0 THEN err.status ELSE 500

\* line 52
context404(err) ==
    [msg |-> IF err.message = "Not Found" THEN Null ELSE Str(err.message)]

\* context500 that exposes the error in every mode
context500_exposed(err) == [e |-> err]

\* line 58
context500(err) == IF env = "production" THEN <<>> ELSE [e |-> err]

\* lines 50-62: the view the switch renders for a status
viewOf(status) ==
    IF status = 404 THEN "404-not-found" ELSE "500-internal-server-error"

----------------------------------------------------------------------------
(* The requests the chain is followed on. *)

Envs == {"production", "development", "test"}

PipelineHosts == { <<"a">>, Www \o <<"a">>, <<"a">> \o Www }

PipelineBodies ==
    { Undefined,
      Obj([a |-> Str(<<Space, "x">>)]),
      Obj([fields |-> Obj([a |-> Str(<<Space>>)]), files |-> Obj([f |-> File])]),
      Obj([fields |-> Str(<<"x">>), files |-> Str(<<>>)]) }

LuscaHeaders ==
    { "Content-Security-Policy", "X-Content-Type-Options",
      "Strict-Transport-Security", "X-Frame-Options", "X-XSS-Protection" }

\* a context as Koa creates it: status 404, no body
NewCtx(host, body) ==
    [ status  |-> 404,
      body    |-> <<>>,
      host    |-> host,
      request |-> [body |-> body],
      state   |-> [domain |-> <<>>],
      render  |-> FALSE,
      headers |-> {} ]

NoRequest == NewCtx(<<>>, Undefined)

Init ==
    /\ env \in Envs
    /\ pc = "idle"
    /\ fileOnDisk = FALSE
    /\ parsed = Undefined
    /\ ctx = NoRequest
    /\ exc = <<>>
    /\ e = <<>>
    /\ now = 0
    /\ t1 = 0
    /\ clockWentBack = FALSE
    /\ ran = {}
    /\ thrown = 0
    /\ catches = 0
    /\ renders = <<>>
    /\ emits = <<>>
    /\ accesses = <<>>

\* a request arrives: Koa creates its context and enters the chain
Arrive ==
    /\ pc \in {"idle", "done"}
    /\ \E f \in BOOLEAN, h \in PipelineHosts, b \in PipelineBodies :
          /\ fileOnDisk' = f
          /\ parsed' = b
          /\ ctx' = NewCtx(h, b)
    /\ pc' = "serve"
    /\ exc' = <<>>
    /\ e' = <<>>
    /\ clockWentBack' = FALSE
    /\ ran' = {}
    /\ thrown' = 0
    /\ catches' = 0
    /\ renders' = <<>>
    /\ emits' = <<>>
    /\ accesses' = <<>>
    /\ UNCHANGED <<env, now, t1>>

\* the wall clock advances
Tick ==
    /\ now < MaxTime
    /\ now' = now + 1
    /\ UNCHANGED <<env, pc, fileOnDisk, parsed, ctx, exc, e, t1, clockWentBack,
                   ran, thrown, catches, renders, emits, accesses>>

\* the wall clock is set back (Date.now() is not monotonic)
ClockSetBack ==
    /\ now > 0
    /\ \E t \in 0..(now - 1) : now' = t
    /\ clockWentBack' = TRUE
    /\ UNCHANGED <<env, pc, fileOnDisk, parsed, ctx, exc, e, t1,
                   ran, thrown, catches, renders, emits, accesses>>

\* a middleware below handleErrors throws err: the frames between have no
\* handler, so control arrives in the catch block
Throw(err) ==
    /\ exc' = <<err>>
    /\ thrown' = thrown + 1
    /\ pc' = "catch"

\* a middleware calls next() (or returns to the middleware above)
Goto(next) ==
    /\ pc' = next
    /\ UNCHANGED <<exc, thrown>>

----------------------------------------------------------------------------
(* The middleware, in the order of app.use. *)

\* serve that answers with the file and calls next all the same
serve_andNext ==
    /\ pc = "serve"
    /\ ran' = ran \cup {"serve"}
    /\ IF fileOnDisk
       THEN ctx' = [ctx EXCEPT !.status = 200, !.body = <<"file">>]
       ELSE UNCHANGED ctx
    /\ Goto("logAccess")
    /\ UNCHANGED <<env, fileOnDisk, parsed, e, now, t1, clockWentBack,
                   catches, renders, emits, accesses>>

\* line 21: koa-static answers a request for a file under 'public' and does
\* not call next; any other request goes down the chain
serve ==
    /\ pc = "serve"
    /\ ran' = ran \cup {"serve"}
    /\ IF fileOnDisk
       THEN /\ ctx' = [ctx EXCEPT !.status = 200, !.body = <<"file">>]
            /\ Goto("done")
       ELSE /\ UNCHANGED ctx
            /\ Goto("logAccess")
    /\ UNCHANGED <<env, fileOnDisk, parsed, e, now, t1, clockWentBack,
                   catches, renders, emits, accesses>>

\* logAccess that writes the access record before it calls next
logAccess_early ==
    /\ pc = "logAccess"
    /\ ran' = ran \cup {"logAccess"}
    /\ t1' = now
    /\ clockWentBack' = FALSE
    /\ accesses' = Append(accesses, [status |-> ctx.status, time |-> 0])
    /\ Goto("handlebars")
    /\ UNCHANGED <<env, fileOnDisk, parsed, ctx, e, now,
                   catches, renders, emits>>

\* lines 25-27: const t1 = Date.now(); await next()
logAccess ==
    /\ pc = "logAccess"
    /\ ran' = ran \cup {"logAccess"}
    /\ t1' = now
    /\ clockWentBack' = FALSE
    /\ Goto("handlebars")
    /\ UNCHANGED <<env, fileOnDisk, parsed, ctx, e, now,
                   catches, renders, emits, accesses>>

\* logAccessAfter with the subtraction the wrong way round
logAccessAfter_swapped ==
    /\ pc = "logAccessAfter"
    /\ exc = <<>>
    /\ accesses' = Append(accesses, [status |-> ctx.status, time |-> t1 - now])
    /\ Goto("done")
    /\ UNCHANGED <<env, fileOnDisk, parsed, ctx, e, now, t1, clockWentBack,
                   ran, catches, renders, emits>>

\* lines 28-30: next() has returned; const t2 = Date.now();
\* await Log.access(ctx, t2 - t1)
logAccessAfter ==
    /\ pc = "logAccessAfter"
    /\ exc = <<>>
    /\ accesses' = Append(accesses, [status |-> ctx.status, time |-> now - t1])
    /\ Goto("done")
    /\ UNCHANGED <<env, fileOnDisk, parsed, ctx, e, now, t1, clockWentBack,
                   ran, catches, renders, emits>>

\* lines 35-39: koa-handlebars gives the context its render method
handlebars ==
    /\ pc = "handlebars"
    /\ ran' = ran \cup {"handlebars"}
    /\ ctx' = [ctx EXCEPT !.render = TRUE]
    /\ Goto("handleErrors")
    /\ UNCHANGED <<env, fileOnDisk, parsed, e, now, t1, clockWentBack,
                   catches, renders, emits, accesses>>

\* lines 43-46: try { await next() }
handleErrors ==
    /\ pc = "handleErrors"
    /\ ran' = ran \cup {"handleErrors"}
    /\ Goto("cleanPost")
    /\ UNCHANGED <<env, fileOnDisk, parsed, ctx, e, now, t1, clockWentBack,
                   catches, renders, emits, accesses>>

\* a catch block that handles 404 only and rethrows anything else
handleErrorsCatch_rethrow ==
    /\ pc = "catch"
    /\ exc # <<>>
    /\ e' = exc
    /\ catches' = catches + 1
    /\ IF statusOf(exc[1]) = 404
       THEN /\ exc' = <<>>
            /\ ctx' = [ctx EXCEPT !.status = 404]
            /\ pc' = "render404"
       ELSE /\ UNCHANGED <<exc, ctx>>
            /\ pc' = "logAccessAfter"
    /\ UNCHANGED <<env, fileOnDisk, parsed, now, t1, clockWentBack,
                   ran, thrown, renders, emits, accesses>>

\* lines 48-50: catch (e) { ctx.status = e.status || 500; switch (ctx.status)
handleErrorsCatch ==
    /\ pc = "catch"
    /\ exc # <<>>
    /\ e' = exc
    /\ exc' = <<>>
    /\ catches' = catches + 1
    /\ ctx' = [ctx EXCEPT !.status = statusOf(exc[1])]
    /\ pc' = IF statusOf(exc[1]) = 404 THEN "render404" ELSE "render500"
    /\ UNCHANGED <<env, fileOnDisk, parsed, now, t1, clockWentBack,
                   ran, thrown, renders, emits, accesses>>

\* case 404 without its break: control falls into the default case
handleErrors404_noBreak ==
    /\ pc = "render404"
    /\ ctx.render
    /\ renders' = Append(renders, [view |-> viewOf(404), context |-> context404(e[1])])
    /\ ctx' = [ctx EXCEPT !.body = <<viewOf(404)>>]
    /\ Goto("emit")
    /\ UNCHANGED <<env, fileOnDisk, parsed, e, now, t1, clockWentBack,
                   ran, catches, emits, accesses>>

\* lines 51-54: case 404: await ctx.render('404-not-found', context404); break
handleErrors404 ==
    /\ pc = "render404"
    /\ ctx.render
    /\ renders' = Append(renders, [view |-> viewOf(404), context |-> context404(e[1])])
    /\ ctx' = [ctx EXCEPT !.body = <<viewOf(404)>>]
    /\ Goto("logAccessAfter")
    /\ UNCHANGED <<env, fileOnDisk, parsed, e, now, t1, clockWentBack,
                   ran, catches, emits, accesses>>

\* lines 55-59: default: await ctx.render('500-internal-server-error', context500)
handleErrors500 ==
    /\ pc = "render500"
    /\ ctx.render
    /\ renders' = Append(renders, [view |-> viewOf(500), context |-> context500(e[1])])
    /\ ctx' = [ctx EXCEPT !.body = <<viewOf(500)>>]
    /\ Goto("emit")
    /\ UNCHANGED <<env, fileOnDisk, parsed, e, now, t1, clockWentBack,
                   ran, catches, emits, accesses>>

\* lines 60-61: ctx.app.emit('error', e, ctx); break
handleErrorsEmit ==
    /\ pc = "emit"
    /\ emits' = Append(emits, [event |-> "error", e |-> e[1], ctx |-> ctx])
    /\ Goto("logAccessAfter")
    /\ UNCHANGED <<env, fileOnDisk, parsed, ctx, e, now, t1, clockWentBack,
                   ran, catches, renders, accesses>>

\* lines 68-81
cleanPost ==
    /\ pc = "cleanPost"
    /\ ran' = ran \cup {"cleanPost"}
    /\ ctx' = [ctx EXCEPT !.request.body = cleanBody(ctx.request.body)]
    /\ IF cleanThrows(ctx.request.body) THEN Throw(TypeError) ELSE Goto("flash")
    /\ UNCHANGED <<env, fileOnDisk, parsed, e, now, t1, clockWentBack,
                   catches, renders, emits, accesses>>

\* line 85: koa-flash passes, or throws
flash ==
    /\ pc = "flash"
    /\ ran' = ran \cup {"flash"}
    /\ \/ Goto("lusca")
       \/ \E err \in Errors : Throw(err)
    /\ UNCHANGED <<env, fileOnDisk, parsed, ctx, e, now, t1, clockWentBack,
                   catches, renders, emits, accesses>>

\* lines 91-97: koa-lusca sets the security headers and passes, or throws
lusca ==
    /\ pc = "lusca"
    /\ ran' = ran \cup {"lusca"}
    /\ \/ /\ ctx' = [ctx EXCEPT !.headers = LuscaHeaders]
          /\ Goto("ctxAddDomain")
       \/ /\ UNCHANGED ctx
          /\ \E err \in Errors : Throw(err)
    /\ UNCHANGED <<env, fileOnDisk, parsed, e, now, t1, clockWentBack,
                   catches, renders, emits, accesses>>

\* lines 101-104
ctxAddDomain ==
    /\ pc = "ctxAddDomain"
    /\ ran' = ran \cup {"ctxAddDomain"}
    /\ ctx' = [ctx EXCEPT !.state.domain = domainOf(ctx.host)]
    /\ Goto("routes")
    /\ UNCHANGED <<env, fileOnDisk, parsed, e, now, t1, clockWentBack,
                   catches, renders, emits, accesses>>

\* line 109: a route answers the request, or its handler throws, or no
\* route matches and the router calls next
routes ==
    /\ pc = "routes"
    /\ ran' = ran \cup {"routes"}
    /\ \/ /\ ctx' = [ctx EXCEPT !.status = 200, !.body = <<"page">>]
          /\ Goto("logAccessAfter")
       \/ /\ UNCHANGED ctx
          /\ \E err \in Errors : Throw(err)
       \/ /\ UNCHANGED ctx
          /\ Goto("notFound")
    /\ UNCHANGED <<env, fileOnDisk, parsed, e, now, t1, clockWentBack,
                   catches, renders, emits, accesses>>

\* notFound that throws a plain Error, which has no status
notFound_plain ==
    /\ pc = "notFound"
    /\ ran' = ran \cup {"notFound"}
    /\ Throw([message |-> "Not Found"])
    /\ UNCHANGED <<env, fileOnDisk, parsed, ctx, e, now, t1, clockWentBack,
                   catches, renders, emits, accesses>>

\* lines 112-114: ctx.throw(404)
notFound ==
    /\ pc = "notFound"
    /\ ran' = ran \cup {"notFound"}
    /\ Throw(NotFoundError)
    /\ UNCHANGED <<env, fileOnDisk, parsed, ctx, e, now, t1, clockWentBack,
                   catches, renders, emits, accesses>>

Next ==
    \/ Arrive
    \/ Tick
    \/ ClockSetBack
    \/ serve
    \/ logAccess
    \/ handlebars
    \/ handleErrors
    \/ cleanPost
    \/ flash
    \/ lusca
    \/ ctxAddDomain
    \/ routes
    \/ notFound
    \/ handleErrorsCatch
    \/ handleErrors404
    \/ handleErrors500
    \/ handleErrorsEmit
    \/ logAccessAfter

Spec == Init /\ [][Next]_vars

TypeOK ==
    /\ env \in Envs
    /\ exc \in {<<>>} \cup { <<err>> : err \in Errors \cup {TypeError, NotFoundError} }
    /\ now \in 0..MaxTime
    /\ t1 \in 0..MaxTime
    /\ thrown \in 0..1
    /\ catches \in 0..1

----------------------------------------------------------------------------
(* cleanPost on every body, and ctxAddDomain on every host: the request is *)
(* at the middleware, the middleware above it have run.                    *)

Above(mw) ==
    CASE mw = "cleanPost" -> {"serve", "logAccess", "handlebars", "handleErrors"}
      [] mw = "ctxAddDomain" ->
            {"serve", "logAccess", "handlebars", "handleErrors", "cleanPost",
             "flash", "lusca"}

InitAt(mw, host, body) ==
    /\ env \in Envs
    /\ pc = mw
    /\ fileOnDisk = FALSE
    /\ parsed = body
    /\ ctx = [NewCtx(host, body) EXCEPT !.render = TRUE]
    /\ exc = <<>>
    /\ e = <<>>
    /\ now = 0
    /\ t1 = 0
    /\ clockWentBack = FALSE
    /\ ran = Above(mw)
    /\ thrown = 0
    /\ catches = 0
    /\ renders = <<>>
    /\ emits = <<>>
    /\ accesses = <<>>

InitCleanPost == \E b \in Bodies : InitAt("cleanPost", <<"a">>, b)

SpecCleanPost == InitCleanPost /\ [][cleanPost]_vars

InitDomain == \E h \in Hosts : InitAt("ctxAddDomain", h, Undefined)

SpecDomain == InitDomain /\ [][ctxAddDomain]_vars

----------------------------------------------------------------------------
(* Properties *)

\* handleErrors has returned to the middleware above it
Returned == pc = "logAccessAfter" \/ (pc = "done" /\ "handleErrors" \in ran)

\* the request has been answered
Answered == pc = "done"

View404 == "404-not-found"
View500 == "500-internal-server-error"

\* C1: an exception raised below handleErrors is caught by it exactly once;
\* when handleErrors returns, the response has a status and the rendered view
\* as its body, and no exception is in flight: none leaves handleErrors.
C1_ErrorBoundary ==
    /\ exc # <<>> => pc = "catch" /\ catches = 0
    /\ Returned =>
          /\ exc = <<>>
          /\ catches = thrown
          /\ thrown = 1 =>
                /\ e # <<>>
                /\ ctx.status = statusOf(e[1])
                /\ Len(renders) = 1
                /\ ctx.body = <<renders[1].view>>

C1_Witness ==
    /\ Answered
    /\ thrown = 1
    /\ catches = 1
    /\ "notFound" \notin ran
    /\ ctx.body = <<View500>>

\* C2 (as claimed): every answered request, the one a static file answers
\* included, has had Log.access called exactly once, with a duration >= 0.
C2_AccessOncePerRequest ==
    Answered => Len(accesses) = 1 /\ accesses[1].time >= 0

\* C2 (amended): a request that a static file answers has no call of
\* Log.access; every other answered request has exactly one, with a duration
\* that is >= 0 unless the wall clock was set back after t1 was read.
C2_AccessOnceUnlessStatic ==
    /\ Len(accesses) <= 1
    /\ Answered /\ fileOnDisk => accesses = <<>>
    /\ Answered /\ ~fileOnDisk =>
          /\ Len(accesses) = 1
          /\ ~clockWentBack => accesses[1].time >= 0

C2_Witness ==
    /\ Answered
    /\ ~fileOnDisk
    /\ thrown = 1
    /\ Len(accesses) = 1
    /\ ~clockWentBack
    /\ accesses[1].time > 0

\* C3: notFound raises the 404 error; once handleErrors has returned from it
\* the status is 404 and the one view rendered is '404-not-found'.
C3_NotFoundRenders404 ==
    "notFound" \in ran /\ pc # "notFound" =>
        /\ pc = "catch" => exc = <<NotFoundError>>
        /\ Returned =>
              /\ catches = 1
              /\ ctx.status = 404
              /\ Len(renders) = 1
              /\ renders[1].view = View404
              /\ ctx.body = <<View404>>

C3_Witness ==
    /\ Answered
    /\ "notFound" \in ran
    /\ ctx.status = 404
    /\ accesses # <<>>

\* C4: an error without a status gives status 500 and the view
\* '500-internal-server-error', rendered with an empty context in production
\* and with the error in any other mode.
C4_NoStatusIs500 ==
    Returned /\ e # <<>> /\ "status" \notin DOMAIN e[1] =>
        /\ ctx.status = 500
        /\ Len(renders) = 1
        /\ renders[1].view = View500
        /\ env = "production" => DOMAIN renders[1].context = {}
        /\ env # "production" =>
              /\ DOMAIN renders[1].context = {"e"}
              /\ renders[1].context.e = e[1]

C4_Witness ==
    /\ Returned
    /\ e # <<>>
    /\ "status" \notin DOMAIN e[1]
    /\ env = "production"
    /\ Len(renders) = 1

\* what the claim says of one form field: a string is trimmed, and null when
\* nothing is left; anything else is left alone
Normalised(v) ==
    IF v[1] = "string"
    THEN IF trim(v[2]) = <<>> THEN Null ELSE Str(trim(v[2]))
    ELSE v

NormalisedMap(m) == [k \in DOMAIN m |-> Normalised(m[k])]

\* a body of the multipart shape: 'fields' and 'files' sub-maps
MultipartShape(b) ==
    /\ b[1] = "object"
    /\ DOMAIN b[2] = {"fields", "files"}
    /\ b[2]["fields"][1] = "object"
    /\ b[2]["files"][1] = "object"

\* a flat body: a mapping of form fields, none of them a sub-map
FlatShape(b) ==
    /\ b[1] = "object"
    /\ \A k \in DOMAIN b[2] : b[2][k][1] # "object"

\* C5: after cleanPost, a flat body (whatever its keys) has every string
\* field trimmed, or null when the trimmed value is empty, and every other
\* field as before; a multipart body has the same of its 'fields' and its
\* 'files' as before; with no body nothing changes; next is invoked.
C5_CleanPostNormalises ==
    "cleanPost" \in ran /\ pc # "cleanPost" =>
        /\ "flash" \notin ran => pc = "flash"
        /\ parsed[1] = "undefined" => ctx.request.body[1] = "undefined"
        /\ FlatShape(parsed) =>
              ctx.request.body = Obj(NormalisedMap(parsed[2]))
        /\ MultipartShape(parsed) =>
              ctx.request.body =
                  Obj([fields |-> Obj(NormalisedMap(parsed[2]["fields"][2])),
                       files |-> parsed[2]["files"]])

\* C5 on the bodies cleanPost does not take for multipart by mistake
C5_ExceptFieldsAndFiles ==
    (FlatShape(parsed) /\ multipart(parsed)) \/ C5_CleanPostNormalises

\* the prefix of a string
StartsWith(s, pat) == Len(pat) <= Len(s) /\ SubSeq(s, 1, Len(pat)) = pat

\* C6: ctx.state.domain is the host without a leading 'www.': a host that
\* begins with 'www.' loses that prefix, any other host is stored unchanged.
C6_DomainDropsLeadingWww ==
    "ctxAddDomain" \in ran /\ pc # "ctxAddDomain" =>
        ctx.state.domain =
            IF StartsWith(ctx.host, Www)
            THEN SubSeq(ctx.host, Len(Www) + 1, Len(ctx.host))
            ELSE ctx.host

\* C7 (as claimed): after the boundary has handled an error the status is
\* 404 when the error's status is 404, and 500 otherwise.
C7_StatusIs404Or500 ==
    Returned /\ e # <<>> =>
        ctx.status =
            IF "status" \in DOMAIN e[1] /\ e[1].status = 404 THEN 404 ELSE 500

\* C7 (amended): the status is the error's own status when it has one that
\* is not 0, else 500; the view is '404-not-found' when that status is 404
\* and '500-internal-server-error' for every other status.
C7_StatusKeptViewIs404Or500 ==
    Returned /\ e # <<>> =>
        /\ "status" \in DOMAIN e[1] /\ e[1].status # 0 => ctx.status = e[1].status
        /\ "status" \notin DOMAIN e[1] \/ e[1].status = 0 => ctx.status = 500
        /\ Len(renders) = 1
        /\ ctx.status = 404 => renders[1].view = View404
        /\ ctx.status # 404 => renders[1].view = View500

C7_Witness ==
    /\ Returned
    /\ e # <<>>
    /\ "status" \in DOMAIN e[1]
    /\ e[1].status = 403
    /\ ctx.status = 403
    /\ ctx.body = <<View500>>

\* C8: a request that a static file answers is answered by serve alone: no
\* other middleware is entered, nothing is logged, rendered or caught.
C8_StaticShortCircuits ==
    fileOnDisk =>
        /\ pc \in {"serve", "done"}
        /\ ran \subseteq {"serve"}
        /\ accesses = <<>>
        /\ renders = <<>>
        /\ catches = 0
        /\ ctx.headers = {}
        /\ Answered => ctx.status = 200 /\ ctx.body = <<"file">>

C8_Witness ==
    /\ fileOnDisk
    /\ Answered
    /\ ran = {"serve"}

\* C9: Log.access is called after everything below logAccess has returned,
\* the boundary's rendering of an error included, and the status it sees is
\* the status the response ends with.
C9_AccessSeesFinalStatus ==
    accesses # <<>> =>
        /\ Answered
        /\ Len(accesses) = 1
        /\ accesses[1].status = ctx.status
        /\ exc = <<>>
        /\ thrown = 1 =>
              /\ catches = 1
              /\ Len(renders) = 1
              /\ accesses[1].status = statusOf(e[1])

C9_Witness ==
    /\ accesses # <<>>
    /\ thrown = 1
    /\ Len(renders) = 1
    /\ accesses[1].status = 403

\* C10: for an error whose status is not 404 the boundary emits 'error' once,
\* with the error and the context, after it has rendered the 500 view; for a
\* 404 it emits nothing.
C10_EmitOnceAfterRender ==
    /\ Len(emits) <= 1
    /\ emits # <<>> =>
          /\ emits[1].event = "error"
          /\ emits[1].e = e[1]
          /\ emits[1].ctx = ctx
          /\ ctx.status # 404
          /\ Len(renders) = 1
          /\ renders[1].view = View500
    /\ Returned /\ e # <<>> =>
          /\ ctx.status # 404 => Len(emits) = 1
          /\ ctx.status = 404 => emits = <<>>

C10_Witness ==
    /\ Returned
    /\ e # <<>>
    /\ ctx.status = 500
    /\ Len(emits) = 1

C10_Witness404 ==
    /\ Returned
    /\ e # <<>>
    /\ ctx.status = 404
    /\ "notFound" \notin ran
    /\ emits = <<>>

====
